---- MODULE Spec2Model ----
(***************************************************************************)
(* Persistence/domain layer of bikeanjo (front/models.py): the topic       *)
(* vocabularies and the help_labels generators, the audit timestamps of    *)
(* BaseModel, HelpRequest with its status query set, HelpReply, and the    *)
(* json() serialisers of Track and Point.                                  *)
(***************************************************************************)
EXTENDS Integers, Sequences, FiniteSets, TLC

VARIABLES clock, seq, user, req, reply, track, point, gen

vars == <<clock, seq, user, req, reply, track, point, gen>>

(* ------------------------------ bounds --------------------------------- *)
MaxClock == 2
MaxUsers == 1
MaxRequests == 2
MaxReplies == 1
MaxTracks == 1
MaxPoints == 1

(* how many negative masks help_labels is run on, next to every mask of    *)
(* the eight topic bits                                                    *)
NegMasks == 2

(* Python's None, for primary keys and for timestamps not yet stamped *)
None == -1

(* ---------------------------- vocabularies ----------------------------- *)
HELP_OFFER ==
    << <<1, "Teach someone to ride a bike">>,
       <<2, "Follow beginners on cycling">>,
       <<4, "Advice about safe routes">>,
       <<8, "Participating in the events of Bike Anjos">> >>

HELP_REQUEST ==
    << <<16, "Learn to ride a bike">>,
       <<32, "Pratice cycling">>,
       <<64, "Monitoring on traffic">>,
       <<128, "Route recomendation">> >>

HELP == HELP_OFFER \o HELP_REQUEST

(* the mask with every topic bit set *)
MaxMask == 2 * HELP[Len(HELP)][1] - 1

STATUS == <<"new", "assigned", "canceled", "finished">>

INTENTION == <<"answer", "finish", "cancel">>

(* Python's  a & b  for a power-of-two b, on unbounded two's complement     *)
(* integers: the bit of a at the position of b, kept in place.              *)
BitAnd(a, b) == IF (a \div b) % 2 = 1 THEN b ELSE 0

(* Python truthiness of an integer-or-None value *)
Truthy(v) == v # None /\ v # 0

(* ------------------------ help_labels generator ------------------------ *)
(* One resumption of the generator body: the for loop over HELP advances   *)
(* by one (code, label) pair; mask is self.help_with as read at this       *)
(* resumption.  g.idx is the position of the pair about to be examined,    *)
(* g.out the labels yielded so far, g.examined the codes whose bit was     *)
(* tested, g.brk the code at which the loop broke (None when it did not).  *)
HelpLabelsStep(g, mask) ==
    IF g.idx > Len(HELP)
    THEN [g EXCEPT !.pc = "done"]
    ELSE LET code == HELP[g.idx][1]
             label == HELP[g.idx][2]
         IN IF mask >= code
            THEN [g EXCEPT !.pc = "done", !.brk = code]
            ELSE [g EXCEPT !.idx = @ + 1,
                           !.examined = @ \cup {code},
                           !.out = IF BitAnd(mask, code) # 0
                                   THEN Append(@, label) ELSE @]

RECURSIVE HelpLabelsRun(_, _)
HelpLabelsRun(g, mask) ==
    IF g.pc = "done" THEN g ELSE HelpLabelsRun(HelpLabelsStep(g, mask), mask)

GenIdle == [pc |-> "idle", kind |-> "none", slot |-> 0, idx |-> 1,
            out |-> <<>>, examined |-> {}, brk |-> None]

GenStart(kind, slot) == [GenIdle EXCEPT !.pc = "running", !.kind = kind, !.slot = slot]

(* list(obj.help_labels()) for an object whose help_with is mask *)
help_labels(mask) == HelpLabelsRun(GenStart("pure", 0), mask).out

(* ------------------------------ entities ------------------------------- *)
UserSlots == 1..MaxUsers
RequestSlots == 1..MaxRequests
ReplySlots == 1..MaxReplies
TrackSlots == 1..MaxTracks
PointSlots == 1..MaxPoints

(* values handed to the writes *)
MaskInputs == {-1, 0, 5}
StatusInputs == {STATUS[i] : i \in 1..Len(STATUS)} \cup {"attended"}
IntentionInputs == {INTENTION[i] : i \in 1..Len(INTENTION)}
LabelInputs == {"home", "work"}
LineInputs == { << <<0, 0>>, <<1, 1>> >>, << <<-46, -23>>, <<-46, -24>>, <<-47, -24>> >> }
CoordInputs == { <<-46, -23>>, <<0, 0>> }

(* An object slot that holds no instance *)
NoUser == [live |-> FALSE, id |-> None, help_with |-> 0]

NoRequest == [live |-> FALSE, id |-> None, requester |-> None, volunteer |-> None,
              help_with |-> 0, status |-> "new", last_access |-> None,
              created_date |-> None, modified_date |-> None]

NoReply == [live |-> FALSE, id |-> None, author |-> None, helprequest |-> None,
            message |-> "", intention |-> "answer",
            created_date |-> None, modified_date |-> None]

NoTrack == [live |-> FALSE, id |-> None, user |-> None, start |-> "", end |-> "",
            track |-> <<>>, created_date |-> None, modified_date |-> None]

NoPoint == [live |-> FALSE, id |-> None, user |-> None, address |-> "",
            coords |-> <<0, 0>>, created_date |-> None, modified_date |-> None]

(* timezone.now() is read once per stamped field; between two reads of one *)
(* save the clock stays or advances                                        *)
Later(t) == {u \in t..(t + 1) : u <= MaxClock}

(* BaseModel with created_date declared auto_now: stamped by every save *)
BaseSave_Restamp(obj, add, t1, t2) ==
    [obj EXCEPT !.created_date = t1,
                !.modified_date = t2]

(* BaseModel: pre_save of created_date (auto_now_add) then of              *)
(* modified_date (auto_now); add is true for the INSERT of a new row, t1   *)
(* and t2 are the two clock reads                                          *)
BaseSave(obj, add, t1, t2) ==
    [obj EXCEPT !.created_date = IF add THEN t1 ELSE @,
                !.modified_date = t2]

(* the primary key an INSERT draws from the table's sequence *)
NextId(table) == seq[table] + 1

Saved(obj) == obj.live /\ obj.id # None

FreeSlot(f, slots) == IF \E i \in slots : ~f[i].live
                      THEN CHOOSE i \in slots : ~f[i].live /\ \A j \in slots : j < i => f[j].live
                      ELSE 0

(* ------------------------------- clock --------------------------------- *)
Tick ==
    /\ clock < MaxClock
    /\ clock' = clock + 1
    /\ UNCHANGED <<seq, user, req, reply, track, point, gen>>

(* -------------------------------- User --------------------------------- *)
(* User(help_with=m).save() *)
CreateUser(m) ==
    LET u == FreeSlot(user, UserSlots) IN
    /\ u # 0
    /\ user' = [user EXCEPT ![u] = [live |-> TRUE, id |-> NextId("user"), help_with |-> m]]
    /\ seq' = [seq EXCEPT !["user"] = NextId("user")]
    /\ UNCHANGED <<clock, req, reply, track, point, gen>>

(* u.help_with = m; u.save() *)
WriteUser(u, m) ==
    /\ Saved(user[u])
    /\ user' = [user EXCEPT ![u].help_with = m]
    /\ UNCHANGED <<clock, seq, req, reply, track, point, gen>>

(* ----------------------------- HelpRequest ----------------------------- *)
(* HelpRequest(requester=u): the field defaults are evaluated at           *)
(* instantiation, last_access by a call of timezone.now                    *)
NewHelpRequest(u) ==
    LET r == FreeSlot(req, RequestSlots) IN
    /\ r # 0
    /\ Saved(user[u])
    /\ req' = [req EXCEPT ![r] = [NoRequest EXCEPT !.live = TRUE, !.requester = user[u].id,
                                                   !.volunteer = None, !.help_with = 0,
                                                   !.status = "new", !.last_access = clock]]
    /\ UNCHANGED <<clock, seq, user, reply, track, point, gen>>

(* first save() of an instance: INSERT *)
InsertHelpRequest(r, t2) ==
    /\ req[r].live /\ req[r].id = None
    /\ t2 \in Later(clock)
    /\ req' = [req EXCEPT ![r] = [BaseSave(@, TRUE, clock, t2) EXCEPT !.id = NextId("helprequest")]]
    /\ seq' = [seq EXCEPT !["helprequest"] = NextId("helprequest")]
    /\ clock' = t2
    /\ UNCHANGED <<user, reply, track, point, gen>>

(* r.status = st; r.volunteer = v; r.help_with = m;                        *)
(* [r.last_access = timezone.now()]; r.save()                              *)
WriteHelpRequest(r, st, v, m, touch, t2) ==
    /\ Saved(req[r])
    /\ v = None \/ (v \in UserSlots /\ Saved(user[v]))
    /\ t2 \in Later(clock)
    /\ req' = [req EXCEPT ![r] = BaseSave([@ EXCEPT !.status = st,
                                                    !.volunteer = IF v = None THEN None ELSE user[v].id,
                                                    !.help_with = m,
                                                    !.last_access = IF touch THEN clock ELSE @],
                                          FALSE, clock, t2)]
    /\ clock' = t2
    /\ UNCHANGED <<seq, user, reply, track, point, gen>>

(* has_updates comparing with <= in place of < *)
has_updates_OrEqual(r) == r.last_access <= r.modified_date

has_updates(r) == r.last_access < r.modified_date

(* HelpStatusQuerySet: the query set is the set of stored rows *)
Objects == {req[r] : r \in {s \in RequestSlots : Saved(req[s])}}

active(qs) == {r \in qs : r.status \in {"new", "assigned"}}

new(qs) == {r \in qs : r.status = "new"}

assigned(qs) == {r \in qs : r.status = "assigned"}

(* closed() listing 'assigned' in place of 'attended' *)
closed_Assigned(qs) == {r \in qs : r.status \in {"canceled", "assigned"}}

closed(qs) == {r \in qs : r.status \in {"canceled", "attended"}}

canceled(qs) == {r \in qs : r.status = "canceled"}

(* attended() filtering on the declared status 'finished' *)
attended_Finished(qs) == {r \in qs : r.status = "finished"}

attended(qs) == {r \in qs : r.status = "attended"}

(* ------------------------------ HelpReply ------------------------------ *)
(* a reply save that also applies its intention to the request's status *)
CreateHelpReply_Transition(u, r, i, t2) ==
    LET p == FreeSlot(reply, ReplySlots) IN
    /\ p # 0
    /\ Saved(user[u]) /\ Saved(req[r])
    /\ t2 \in Later(clock)
    /\ reply' = [reply EXCEPT ![p] =
                    BaseSave([NoReply EXCEPT !.live = TRUE, !.id = NextId("helpreply"),
                                             !.author = user[u].id, !.helprequest = req[r].id,
                                             !.message = "msg", !.intention = i],
                             TRUE, clock, t2)]
    /\ req' = [req EXCEPT ![r].status = CASE i = "finish" -> "finished"
                                           [] i = "cancel" -> "canceled"
                                           [] OTHER -> @]
    /\ seq' = [seq EXCEPT !["helpreply"] = NextId("helpreply")]
    /\ clock' = t2
    /\ UNCHANGED <<user, track, point, gen>>

(* HelpReply(author=u, helprequest=r, message=.., intention=i).save() *)
CreateHelpReply(u, r, i, t2) ==
    LET p == FreeSlot(reply, ReplySlots) IN
    /\ p # 0
    /\ Saved(user[u]) /\ Saved(req[r])
    /\ t2 \in Later(clock)
    /\ reply' = [reply EXCEPT ![p] =
                    BaseSave([NoReply EXCEPT !.live = TRUE, !.id = NextId("helpreply"),
                                             !.author = user[u].id, !.helprequest = req[r].id,
                                             !.message = "msg", !.intention = i],
                             TRUE, clock, t2)]
    /\ seq' = [seq EXCEPT !["helpreply"] = NextId("helpreply")]
    /\ clock' = t2
    /\ UNCHANGED <<user, req, track, point, gen>>

(* p.intention = i; p.save() *)
WriteHelpReply(p, i, t2) ==
    /\ Saved(reply[p])
    /\ t2 \in Later(clock)
    /\ reply' = [reply EXCEPT ![p] = BaseSave([@ EXCEPT !.intention = i], FALSE, clock, t2)]
    /\ clock' = t2
    /\ UNCHANGED <<seq, user, req, track, point, gen>>

(* -------------------------------- Track -------------------------------- *)
NewTrack(u, s, e, line) ==
    LET t == FreeSlot(track, TrackSlots) IN
    /\ t # 0
    /\ Saved(user[u])
    /\ track' = [track EXCEPT ![t] = [NoTrack EXCEPT !.live = TRUE, !.user = user[u].id,
                                                     !.start = s, !.end = e, !.track = line]]
    /\ UNCHANGED <<clock, seq, user, req, reply, point, gen>>

(* t.save(): INSERT when the instance has no id yet, UPDATE otherwise *)
SaveTrack(t, t2) ==
    /\ track[t].live
    /\ t2 \in Later(clock)
    /\ LET add == track[t].id = None IN
       /\ track' = [track EXCEPT ![t] = [BaseSave(@, add, clock, t2)
                                            EXCEPT !.id = IF add THEN NextId("track") ELSE @]]
       /\ seq' = [seq EXCEPT !["track"] = IF add THEN NextId("track") ELSE @]
    /\ clock' = t2
    /\ UNCHANGED <<user, req, reply, point, gen>>

TrackJson(t) ==
    [type |-> "LineString",
     coordinates |-> [i \in 1..Len(t.track) |-> t.track[i]],
     properties |-> [k \in {"start", "end"} \cup (IF Truthy(t.id) THEN {"id"} ELSE {}) |->
                        CASE k = "start" -> t.start
                          [] k = "end" -> t.end
                          [] k = "id" -> t.id]]

(* -------------------------------- Point -------------------------------- *)
NewPoint(u, a, c) ==
    LET p == FreeSlot(point, PointSlots) IN
    /\ p # 0
    /\ Saved(user[u])
    /\ point' = [point EXCEPT ![p] = [NoPoint EXCEPT !.live = TRUE, !.user = user[u].id,
                                                     !.address = a, !.coords = c]]
    /\ UNCHANGED <<clock, seq, user, req, reply, track, gen>>

SavePoint(p, t2) ==
    /\ point[p].live
    /\ t2 \in Later(clock)
    /\ LET add == point[p].id = None IN
       /\ point' = [point EXCEPT ![p] = [BaseSave(@, add, clock, t2)
                                            EXCEPT !.id = IF add THEN NextId("point") ELSE @]]
       /\ seq' = [seq EXCEPT !["point"] = IF add THEN NextId("point") ELSE @]
    /\ clock' = t2
    /\ UNCHANGED <<user, req, reply, track, gen>>

(* Point.json() setting properties.id without the test of self.id *)
PointJson_AlwaysId(p) ==
    [type |-> "LineString",
     coordinates |-> p.coords,
     properties |-> [k \in {"address", "id"} |->
                        CASE k = "address" -> p.address
                          [] k = "id" -> p.id]]

PointJson(p) ==
    [type |-> "LineString",
     coordinates |-> p.coords,
     properties |-> [k \in {"address"} \cup (IF Truthy(p.id) THEN {"id"} ELSE {}) |->
                        CASE k = "address" -> p.address
                          [] k = "id" -> p.id]]

(* --------------------- help_labels as a running generator -------------- *)
(* self.help_with of the object the generator was called on *)
GenMask(g) == IF g.kind = "User" THEN user[g.slot].help_with ELSE req[g.slot].help_with

(* obj.help_labels(): a new generator object, nothing run yet *)
StartHelpLabels(kind, slot) ==
    /\ gen.pc # "running"
    /\ \/ kind = "User" /\ slot \in UserSlots /\ user[slot].live
       \/ kind = "HelpRequest" /\ slot \in RequestSlots /\ req[slot].live
    /\ gen' = GenStart(kind, slot)
    /\ UNCHANGED <<clock, seq, user, req, reply, track, point>>

(* next(generator) up to the following pair of HELP *)
StepHelpLabels ==
    /\ gen.pc = "running"
    /\ gen' = HelpLabelsStep(gen, GenMask(gen))
    /\ UNCHANGED <<clock, seq, user, req, reply, track, point>>

(* --------------------------- specifications ---------------------------- *)
Init ==
    /\ clock = 0
    /\ seq = [user |-> 0, helprequest |-> 0, helpreply |-> 0, track |-> 0, point |-> 0]
    /\ user = [u \in UserSlots |-> NoUser]
    /\ req = [r \in RequestSlots |-> NoRequest]
    /\ reply = [p \in ReplySlots |-> NoReply]
    /\ track = [t \in TrackSlots |-> NoTrack]
    /\ point = [p \in PointSlots |-> NoPoint]
    /\ gen = GenIdle

(* the writes of each entity, by the values handed in *)
UserWrites(masks) ==
    \/ \E m \in masks : CreateUser(m)
    \/ \E u \in UserSlots, m \in masks : WriteUser(u, m)

(* advance: whether a clock read made during a save may find the clock moved on *)
RequestWrites(statuses, volunteers, masks, touches, advance) ==
    \/ \E u \in UserSlots : NewHelpRequest(u)
    \/ \E r \in RequestSlots, t2 \in 0..MaxClock :
          (advance \/ t2 = clock) /\ InsertHelpRequest(r, t2)
    \/ \E r \in RequestSlots, st \in statuses, v \in volunteers,
          m \in masks, touch \in touches, t2 \in 0..MaxClock :
          (advance \/ t2 = clock) /\ WriteHelpRequest(r, st, v, m, touch, t2)

ReplyWrites(intentions) ==
    \/ \E u \in UserSlots, r \in RequestSlots, i \in intentions, t2 \in 0..MaxClock :
          CreateHelpReply(u, r, i, t2)
    \/ \E p \in ReplySlots, i \in intentions, t2 \in 0..MaxClock : WriteHelpReply(p, i, t2)

GeoWrites(labels, lines, coords) ==
    \/ \E u \in UserSlots, s \in labels, e \in labels, line \in lines : NewTrack(u, s, e, line)
    \/ \E t \in TrackSlots, t2 \in 0..MaxClock : SaveTrack(t, t2)
    \/ \E u \in UserSlots, a \in labels, c \in coords : NewPoint(u, a, c)
    \/ \E p \in PointSlots, t2 \in 0..MaxClock : SavePoint(p, t2)

LabelSteps ==
    \/ \E k \in {"User", "HelpRequest"}, s \in UserSlots \cup RequestSlots : StartHelpLabels(k, s)
    \/ StepHelpLabels

(* HelpRequest and HelpReply under a running clock: requests are created,  *)
(* assigned, viewed by their requester and replied to.                     *)
Next ==
    \/ Tick
    \/ UserWrites({0})
    \/ RequestWrites({"new", "assigned"}, UserSlots \cup {None}, {0}, BOOLEAN, TRUE)
    \/ ReplyWrites(IntentionInputs)

Spec == Init /\ [][Next]_vars

(* Every entity extending BaseModel, written under a running clock.        *)
NextAudit ==
    \/ Tick
    \/ UserWrites({0})
    \/ RequestWrites({"new"}, {None}, {0}, BOOLEAN, TRUE)
    \/ ReplyWrites({"answer"})
    \/ GeoWrites({"home"}, { << <<0, 0>>, <<1, 1>> >> }, { <<-46, -23>> })

SpecAudit == Init /\ [][NextAudit]_vars

(* Status writes over stored requests; no clock read advances the clock.   *)
NextStatus ==
    \/ UserWrites({0})
    \/ RequestWrites(StatusInputs, UserSlots \cup {None}, {0}, {FALSE}, FALSE)

SpecStatus == Init /\ [][NextStatus]_vars

(* Topic-mask writes of users and requests, and help_labels run on the     *)
(* stored masks.                                                           *)
NextMasks ==
    \/ UserWrites(MaskInputs)
    \/ RequestWrites({"new"}, {None}, MaskInputs, {FALSE}, FALSE)
    \/ LabelSteps

SpecMasks == Init /\ [][NextMasks]_vars

(* Track and Point with their serialisers.                                 *)
NextGeo ==
    \/ Tick
    \/ UserWrites({0})
    \/ GeoWrites(LabelInputs, LineInputs, CoordInputs)

SpecGeo == Init /\ [][NextGeo]_vars

(* help_labels over every mask: one stored User and one stored             *)
(* HelpRequest carrying the same mask.                                     *)
InitLabels ==
    /\ clock = 0
    /\ seq = [user |-> 1, helprequest |-> 1, helpreply |-> 0, track |-> 0, point |-> 0]
    /\ \E m \in (0 - NegMasks)..MaxMask :
          /\ user = [u \in UserSlots |-> IF u = 1 THEN [live |-> TRUE, id |-> 1, help_with |-> m]
                                                  ELSE NoUser]
          /\ req = [r \in RequestSlots |->
                       IF r = 1 THEN [NoRequest EXCEPT !.live = TRUE, !.id = 1, !.requester = 1,
                                                       !.help_with = m, !.last_access = 0,
                                                       !.created_date = 0, !.modified_date = 0]
                                ELSE NoRequest]
    /\ reply = [p \in ReplySlots |-> NoReply]
    /\ track = [t \in TrackSlots |-> NoTrack]
    /\ point = [p \in PointSlots |-> NoPoint]
    /\ gen = GenIdle

SpecLabels == InitLabels /\ [][LabelSteps]_vars

(* ------------------------------ properties ----------------------------- *)
HelpCodes == {HELP[i][1] : i \in 1..Len(HELP)}

(* the labels of HELP whose codes are set bits of m, in the order of HELP *)
SetBitLabels(m) ==
    LET sel == SelectSeq(HELP, LAMBDA p : BitAnd(m, p[1]) # 0)
    IN [i \in 1..Len(sel) |-> sel[i][2]]

GenFinished == gen.pc = "done" /\ GenMask(gen) \in 0..MaxMask

(* C1: for every mask in 0..255 stored in help_with, help_labels() of a    *)
(* User and of a HelpRequest yields exactly the labels of the set bits of  *)
(* the mask, each once, in ascending code order; 1|4 yields the labels of  *)
(* codes 1 and 4, mask 0 yields nothing.                                   *)
C1_HelpLabelsYieldSetBits ==
    GenFinished => gen.out = SetBitLabels(GenMask(gen))

(* C9: help_labels leaves the loop early only at a code strictly greater   *)
(* than the mask, so every code <= mask has had its bit examined when the  *)
(* loop ends.                                                              *)
C9_BreakOnlyAboveMask ==
    GenFinished =>
        /\ gen.brk # None => GenMask(gen) < gen.brk
        /\ \A code \in HelpCodes : code <= GenMask(gen) => code \in gen.examined

(* C2: has_updates() of a stored HelpRequest is true exactly when          *)
(* last_access < modified_date; after a write that set last_access to the  *)
(* instant of its modified_date it is false.                               *)
C2_HasUpdatesIffAccessPredates ==
    \A r \in RequestSlots :
        Saved(req[r]) =>
            /\ has_updates(req[r]) <=> req[r].last_access < req[r].modified_date
            /\ req[r].last_access = req[r].modified_date => ~has_updates(req[r])

(* a stored request written after its creation, by a write that set        *)
(* last_access at the instant of modified_date                             *)
C2_Witness ==
    \E r \in RequestSlots :
        /\ Saved(req[r])
        /\ req[r].created_date < req[r].modified_date
        /\ req[r].last_access = req[r].modified_date
        /\ ~has_updates(req[r])

(* C3: right after the creating save of a HelpRequest built with the       *)
(* defaults has_updates() is false, and it turns true only by a write of   *)
(* the record at a clock value strictly after last_access.                 *)
C3_NoUpdatesAfterCreate ==
    [][\A r \in RequestSlots :
          /\ (req[r].live /\ req[r].id = None /\ Saved(req'[r])) => ~has_updates(req'[r])
          /\ (Saved(req[r]) /\ ~has_updates(req[r]) /\ has_updates(req'[r])) =>
                (req'[r].modified_date = clock' /\ req'[r].last_access < clock')]_vars

DeclaredStatus == {STATUS[i] : i \in 1..Len(STATUS)}

(* the stored requests whose status is in none of the sets active() and    *)
(* closed() list                                                           *)
Unlisted(qs) == {r \in qs : r.status \notin {"new", "assigned", "canceled", "attended"}}

(* C4: active() and closed() never share a record; active(), closed() and  *)
(* the records of unlisted status cover the collection, no record in two   *)
(* of them; a record of status 'new' is in active() and not in closed().   *)
C4_ActiveClosedPartition ==
    LET a == active(Objects)
        c == closed(Objects)
        n == Unlisted(Objects)
    IN /\ a \cap c = {}
       /\ a \cap n = {} /\ c \cap n = {}
       /\ a \cup c \cup n = Objects
       /\ \A r \in Objects : r.status = "new" => (r \in a /\ r \notin c)

(* a collection with a record in active() and another in closed() *)
C4_Witness ==
    /\ \E r \in active(Objects) : r.status = "assigned"
    /\ \E r \in closed(Objects) : r.status = "attended"

(* C10: over a collection whose statuses are all declared ones, attended() *)
(* is empty, closed() equals canceled(), and a 'finished' record is in     *)
(* none of the six filters.                                                *)
C10_DeclaredStatusFilters ==
    (\A r \in Objects : r.status \in DeclaredStatus) =>
        /\ attended(Objects) = {}
        /\ closed(Objects) = canceled(Objects)
        /\ \A r \in Objects : r.status = "finished" =>
              r \notin active(Objects) \cup new(Objects) \cup assigned(Objects)
                       \cup closed(Objects) \cup canceled(Objects) \cup attended(Objects)

(* a collection of declared statuses holding a finished and a canceled     *)
(* record                                                                  *)
C10_Witness ==
    /\ \A r \in Objects : r.status \in DeclaredStatus
    /\ \E r \in Objects : r.status = "finished"
    /\ \E r \in Objects : r.status = "canceled" /\ r \in closed(Objects)

JsonKeys == {"type", "coordinates", "properties"}

JsonIdOk(d, obj) ==
    /\ DOMAIN d = JsonKeys
    /\ "id" \in DOMAIN d.properties <=> obj.id # None
    /\ obj.id # None => d.properties["id"] = obj.id

(* C5: Track.json() and Point.json() return a mapping with the keys type,  *)
(* coordinates and properties, and properties holds id exactly when the    *)
(* instance has a primary key, with that key as its value.                 *)
C5_JsonIdIffPersisted ==
    /\ \A t \in TrackSlots : track[t].live => JsonIdOk(TrackJson(track[t]), track[t])
    /\ \A p \in PointSlots : point[p].live => JsonIdOk(PointJson(point[p]), point[p])

(* a saved track serialised with its id next to an unsaved point           *)
(* serialised without one                                                  *)
C5_Witness ==
    /\ \E t \in TrackSlots : Saved(track[t]) /\ TrackJson(track[t]).properties["id"] = track[t].id
    /\ \E p \in PointSlots : point[p].live /\ point[p].id = None
                             /\ DOMAIN PointJson(point[p]).properties = {"address"}

(* C6: a write of a negative help_with is rejected, so the stored          *)
(* help_with of every User and HelpRequest is non-negative.                *)
C6_StoredHelpWithNonNegative ==
    /\ \A u \in UserSlots : Saved(user[u]) => user[u].help_with >= 0
    /\ \A r \in RequestSlots : Saved(req[r]) => req[r].help_with >= 0

(* one step of an entity extending BaseModel *)
AuditStep(before, after) ==
    /\ Saved(before) => after.created_date = before.created_date
    /\ (Saved(after) /\ ~Saved(before)) => (clock <= after.created_date /\ after.created_date <= clock')
    /\ (Saved(after) /\ after # before) => after.modified_date = clock'
    /\ Saved(after) => after.created_date <= after.modified_date

(* C7: created_date is set by the creating write and never changes, every  *)
(* write stamps modified_date with the clock, created_date <=              *)
(* modified_date in every state.                                           *)
C7_AuditTimestamps ==
    [][/\ \A r \in RequestSlots : AuditStep(req[r], req'[r])
       /\ \A p \in ReplySlots : AuditStep(reply[p], reply'[p])
       /\ \A t \in TrackSlots : AuditStep(track[t], track'[t])
       /\ \A p \in PointSlots : AuditStep(point[p], point'[p])]_vars

(* a request and a track both written again after the clock moved on *)
C7_Witness ==
    /\ \E r \in RequestSlots : Saved(req[r]) /\ req[r].created_date < req[r].modified_date
    /\ \E t \in TrackSlots : Saved(track[t]) /\ track[t].created_date = 0
                             /\ track[t].modified_date = MaxClock

(* C8: a step that creates or saves a HelpReply, whatever its intention,   *)
(* leaves every HelpRequest as it was.                                     *)
C8_ReplyLeavesRequest ==
    [][reply' # reply => req' = req]_vars

(* a stored reply asking to finish or cancel a request that is still new *)
C8_Witness ==
    \E p \in ReplySlots, r \in RequestSlots :
        /\ Saved(reply[p]) /\ Saved(req[r])
        /\ reply[p].helprequest = req[r].id
        /\ reply[p].intention \in {"finish", "cancel"}
        /\ req[r].status = "new"

====
